---- MODULE Spec2Model ----
(***************************************************************************)
(* Model of the AOP helper (src/src/aop.js) and of two of the functional   *)
(* combinators ($compose, Array.prototype.intersection) of the library     *)
(* file src/unnamed/part_000.                                              *)
(*                                                                         *)
(* JavaScript values are tagged records.  The target object is one mutable *)
(* object; the wrappers AOP installs are closures kept in a heap; the      *)
(* functions the caller supplies (the original method and the advices) are *)
(* named functions whose bodies are fixed at Init.                         *)
(***************************************************************************)
EXTENDS Integers, Sequences, FiniteSets, TLC

VARIABLES
    target,     \* the target object: slot name -> value
    closures,   \* heap of the wrapper closures AOP has created
    behave,     \* the bodies of the caller's functions: name -> behaviour
    last,       \* the last AOP operation: its inputs and its completion
    lib         \* the last call of a library function of part_000

vars == <<target, closures, behave, last, lib>>

----------------------------------------------------------------------------
(* Bounds *)

MaxWraps == 2      \* successful wrap calls in one behaviour
MaxFns   == 2      \* functions passed to $compose
MaxLen   == 2      \* length of the arrays given to intersection

----------------------------------------------------------------------------
(* JavaScript values *)

Undefined    == [t |-> "undefined"]
Null         == [t |-> "null"]
Bool(b)      == [t |-> "boolean", b |-> b]
Num(n)       == [t |-> "number", n |-> n]
Str(s)       == [t |-> "string", s |-> s]
Arr(a)       == [t |-> "array", a |-> a]
Arguments(a) == [t |-> "arguments", a |-> a]
Fn(name)     == [t |-> "function", name |-> name]
Closure(i)   == [t |-> "function", cl |-> i]
Obj          == [t |-> "object"]
Err(msg)     == [t |-> "error", msg |-> msg]

\* the error a JavaScript engine raises for a call of a non-function or a
\* property read of null/undefined
TypeError == Err("TypeError")

\* typeof
TypeOf(v) ==
    CASE v.t = "undefined" -> "undefined"
      [] v.t = "boolean"   -> "boolean"
      [] v.t = "number"    -> "number"
      [] v.t = "string"    -> "string"
      [] v.t = "function"  -> "function"
      [] OTHER             -> "object"      \* null, arrays, objects, errors

\* ToBoolean
Truthy(v) ==
    CASE v.t = "undefined" -> FALSE
      [] v.t = "null"      -> FALSE
      [] v.t = "boolean"   -> v.b
      [] v.t = "number"    -> v.n # 0
      [] v.t = "string"    -> v.s # ""
      [] OTHER             -> TRUE

\* v instanceof Array
InstanceOfArray(v) == v.t = "array"

\* completions
Return(v) == [st |-> "return", v |-> v]
Throw(e)  == [st |-> "throw", v |-> e]

----------------------------------------------------------------------------
(* AOP: the error constants *)

InvalidObject  == Err("unable to add aop function to non-object")
InvalidMethod  == Err("unknown method")
InvalidAspect  == Err("can only add functions")
InvalidProceed == Err("you can not call proceed from here")

Slots == {"m", "q"}

\* obj[method], for an obj that is neither null nor undefined
Get(obj, method) ==
    IF obj = Obj /\ method.t = "string" /\ method.s \in Slots
    THEN target[method.s]
    ELSE Undefined

\* check(obj, method, fun): the completion of the validation
check(obj, method, fun) ==
    IF TypeOf(obj) # "object" THEN Throw(InvalidObject)
    ELSE IF TypeOf(fun) # "function" THEN Throw(InvalidAspect)
    ELSE IF ~Truthy(method) THEN Throw(InvalidMethod)
    ELSE IF obj = Null THEN Throw(TypeError)       \* null[method]
    ELSE IF Get(obj, method) = Undefined THEN Throw(InvalidMethod)
    ELSE Return(Undefined)

----------------------------------------------------------------------------
(* Calls.  A call yields a completion with the log of the calls made while *)
(* it ran: [st, v, log].  An event of the log carries the depth d of the   *)
(* call it belongs to: the invocation by the caller has depth 0, the calls *)
(* its body makes have depth 1, and so on.                                 *)

Done(st, v, log) == [st |-> st, v |-> v, log |-> log]

CallEv(f, this, args, d) ==
    [ev |-> "call", f |-> f, this |-> this, args |-> args, d |-> d]
ExitEv(f, st, v, d) ==
    [ev |-> st, f |-> f, v |-> v, d |-> d]

\* r1 ran, then r2: r2's completion after both logs
Then(r1, r2) == Done(r2.st, r2.v, r1.log \o r2.log)

RECURSIVE Apply(_, _, _, _)

\* beforeWrapper testing the advice's value with !tmp, not tmp === undefined
beforeWrapperFalsy(c, this, args, d) ==
    LET r1 == Apply(c.fun, this, args, d + 1) IN
    IF r1.st = "throw" THEN r1
    ELSE LET tmp == r1.v IN
         IF ~Truthy(tmp) THEN Then(r1, Apply(c.old, this, args, d + 1))
         ELSE IF InstanceOfArray(tmp) THEN Then(r1, Apply(c.old, this, tmp.a, d + 1))
         ELSE Then(r1, Apply(c.old, this, <<tmp>>, d + 1))

\* the function installed by AOP.before
beforeWrapper(c, this, args, d) ==
    LET r1 == Apply(c.fun, this, args, d + 1) IN
    IF r1.st = "throw" THEN r1
    ELSE LET tmp == r1.v IN
         IF tmp = Undefined THEN Then(r1, Apply(c.old, this, args, d + 1))
         ELSE IF InstanceOfArray(tmp) THEN Then(r1, Apply(c.old, this, tmp.a, d + 1))
         ELSE Then(r1, Apply(c.old, this, <<tmp>>, d + 1))

\* afterWrapper calling the advice but returning the original's value
afterWrapperKeepsResult(c, this, args, d) ==
    LET r1 == Apply(c.old, this, args, d + 1) IN
    IF r1.st = "throw" THEN r1
    ELSE LET tmp == r1.v
             r2  == Apply(c.fun, this, <<tmp>>, d + 1)
         IN  IF r2.st = "throw" THEN Then(r1, r2)
             ELSE Done("return", tmp, r1.log \o r2.log)

\* the function installed by AOP.after
afterWrapper(c, this, args, d) ==
    LET r1 == Apply(c.old, this, args, d + 1) IN
    IF r1.st = "throw" THEN r1
    ELSE LET tmp == r1.v IN
         Then(r1, Apply(c.fun, this, <<tmp>>, d + 1))

\* handleWrapper catching what the advice throws too
handleWrapperSwallows(c, this, args, d) ==
    LET r1 == Apply(c.old, this, args, d + 1) IN
    IF r1.st = "throw"
    THEN LET e  == r1.v
             r2 == Apply(c.fun, this, <<e, Arguments(args)>>, d + 1)
         IN  Done("return", Undefined, r1.log \o r2.log)
    ELSE Done("return", Undefined, r1.log)

\* handleWrapper returning the original's value on the success path
handleWrapperReturns(c, this, args, d) ==
    LET r1 == Apply(c.old, this, args, d + 1) IN
    IF r1.st = "throw"
    THEN LET e  == r1.v
             r2 == Apply(c.fun, this, <<e, Arguments(args)>>, d + 1)
         IN  IF r2.st = "throw" THEN Then(r1, r2)
             ELSE Done("return", Undefined, r1.log \o r2.log)
    ELSE r1

\* the function installed by AOP.handle
handleWrapper(c, this, args, d) ==
    LET r1 == Apply(c.old, this, args, d + 1) IN
    IF r1.st = "throw"
    THEN LET e  == r1.v
             r2 == Apply(c.fun, this, <<e, Arguments(args)>>, d + 1)
         IN  IF r2.st = "throw" THEN Then(r1, r2)
             ELSE Done("return", Undefined, r1.log \o r2.log)
    ELSE Done("return", Undefined, r1.log)

\* aroundWrapper calling the original itself before handing it to the advice
aroundWrapperCallsOld(c, this, args, d) ==
    LET r1 == Apply(c.old, this, args, d + 1) IN
    IF r1.st = "throw" THEN r1
    ELSE Then(r1, Apply(c.fun, this, <<c.old, Arguments(args)>>, d + 1))

\* the function installed by AOP.around
aroundWrapper(c, this, args, d) ==
    Apply(c.fun, this, <<c.old, Arguments(args)>>, d + 1)

\* f.apply(this, a) as written in the body of one of the caller's functions:
\* f must be callable and a an array or an arguments object
ApplyLike(f, this, a, d) ==
    IF a.t \in {"array", "arguments"}
    THEN Apply(f, this, a.a, d)
    ELSE Done("throw", TypeError, <<>>)

\* the body of one of the caller's functions, as behave defines it
UserBody(name, this, args, d) ==
    LET bh == behave[name] IN
    CASE bh.b = "return" -> Done("return", bh.v, <<>>)
      [] bh.b = "throw"  -> Done("throw", bh.v, <<>>)
      [] bh.b = "proceed" ->
            \* function (old, args) { return old.apply(this, args); }
            IF Len(args) < 2 THEN Done("throw", TypeError, <<>>)
            ELSE ApplyLike(args[1], this, args[2], d + 1)
      [] bh.b = "proceed2" ->
            \* function (old, args) { old.apply(this, args);
            \*                        return old.apply(this, args); }
            IF Len(args) < 2 THEN Done("throw", TypeError, <<>>)
            ELSE LET r1 == ApplyLike(args[1], this, args[2], d + 1) IN
                 IF r1.st = "throw" THEN r1
                 ELSE Then(r1, ApplyLike(args[1], this, args[2], d + 1))

\* f.apply(this, args): a TypeError in the caller when f is no function,
\* else the call of f, logged with its entry and its exit
Apply(f, this, args, d) ==
    IF TypeOf(f) # "function" THEN Done("throw", TypeError, <<>>)
    ELSE LET r == IF "cl" \in DOMAIN f
                  THEN LET c == closures[f.cl] IN
                       CASE c.kind = "before" -> beforeWrapper(c, this, args, d)
                         [] c.kind = "after"  -> afterWrapper(c, this, args, d)
                         [] c.kind = "handle" -> handleWrapper(c, this, args, d)
                         [] c.kind = "around" -> aroundWrapper(c, this, args, d)
                  ELSE UserBody(f.name, this, args, d)
         IN  Done(r.st, r.v,
                  <<CallEv(f, this, args, d)>> \o r.log \o <<ExitEv(f, r.st, r.v, d)>>)

----------------------------------------------------------------------------
(* The caller's functions and the inputs of the operations *)

E == Err("E")

\* the bodies an advice may have
AdviceBehaviours ==
    [b : {"return"},
     v : {Undefined, Null, Bool(FALSE), Num(0), Str(""), Str("v"),
          Arr(<<Str("x"), Str("y")>>)}]
    \cup {[b |-> "throw", v |-> E], [b |-> "proceed"], [b |-> "proceed2"]}

\* the bodies the second advice may have (fewer, to keep the product of the
\* two advices' bodies small)
Advice2Behaviours ==
    {[b |-> "return", v |-> Undefined], [b |-> "return", v |-> Str("w")],
     [b |-> "throw", v |-> Err("E2")], [b |-> "proceed"]}

\* the bodies the method the target starts with may have
OrigBehaviours ==
    {[b |-> "return", v |-> Str("r")], [b |-> "throw", v |-> Err("E0")]}

UserFns == {"orig", "a1", "a2"}
Advices == {Fn("a1"), Fn("a2")}

\* argument lists and receivers of an invocation of the method
ArgLists  == {<<Str("a")>>, <<Str("a"), Str("b")>>}
Receivers == {Obj, Undefined}

\* inputs of the wrap calls, valid and invalid
Targets == {Obj, Null, Undefined, Num(0), Str("s"), Fn("a1")}
Methods == {Str("m"), Str("q"), Str(""), Undefined}
Funs    == {Fn("a1"), Undefined, Obj}

----------------------------------------------------------------------------
(* The operations *)

Record(op, obj, method, fun, args, r) ==
    [op |-> op, obj |-> obj, method |-> method, fun |-> fun, args |-> args,
     st |-> r.st, v |-> r.v, log |-> r.log]

\* Wrap, capturing the method the target started with instead of the method
\* installed at the time of the call
WrapOverwrites(kind, obj, method, fun) ==
    LET c == check(obj, method, fun) IN
    IF c.st = "throw"
    THEN /\ last' = Record(kind, obj, method, fun, <<>>, Done("throw", c.v, <<>>))
         /\ UNCHANGED <<target, closures, behave, lib>>
    ELSE /\ Len(closures) < MaxWraps
         /\ LET old == Get(obj, method) IN
            /\ closures' = Append(closures, [kind |-> kind, old |-> Fn("orig"), fun |-> fun])
            /\ target' = [target EXCEPT ![method.s] = Closure(Len(closures) + 1)]
            /\ last' = Record(kind, obj, method, fun, <<>>, Done("return", old, <<>>))
         /\ UNCHANGED <<behave, lib>>

\* Wrap, returning the wrapper it installed instead of the old method
WrapReturnsNew(kind, obj, method, fun) ==
    LET c == check(obj, method, fun) IN
    IF c.st = "throw"
    THEN /\ last' = Record(kind, obj, method, fun, <<>>, Done("throw", c.v, <<>>))
         /\ UNCHANGED <<target, closures, behave, lib>>
    ELSE /\ Len(closures) < MaxWraps
         /\ LET old == Get(obj, method) IN
            /\ closures' = Append(closures, [kind |-> kind, old |-> old, fun |-> fun])
            /\ target' = [target EXCEPT ![method.s] = Closure(Len(closures) + 1)]
            /\ last' = Record(kind, obj, method, fun, <<>>,
                              Done("return", Closure(Len(closures) + 1), <<>>))
         /\ UNCHANGED <<behave, lib>>

\* the body the four wrap functions share: validate, capture the old method,
\* install the wrapper, return the old method
Wrap(kind, obj, method, fun) ==
    LET c == check(obj, method, fun) IN
    IF c.st = "throw"
    THEN /\ last' = Record(kind, obj, method, fun, <<>>, Done("throw", c.v, <<>>))
         /\ UNCHANGED <<target, closures, behave, lib>>
    ELSE /\ Len(closures) < MaxWraps
         /\ LET old == Get(obj, method) IN
            /\ closures' = Append(closures, [kind |-> kind, old |-> old, fun |-> fun])
            /\ target' = [target EXCEPT ![method.s] = Closure(Len(closures) + 1)]
            /\ last' = Record(kind, obj, method, fun, <<>>, Done("return", old, <<>>))
         /\ UNCHANGED <<behave, lib>>

before(obj, method, fun) == Wrap("before", obj, method, fun)
after(obj, method, fun)  == Wrap("after", obj, method, fun)
handle(obj, method, fun) == Wrap("handle", obj, method, fun)
around(obj, method, fun) == Wrap("around", obj, method, fun)

\* the caller invokes target.m(args...) with receiver this
Invoke(this, args) ==
    LET f == target["m"]
        r == Apply(f, this, args, 0)
    IN  /\ last' = Record("invoke", this, Str("m"), f, args, r)
        /\ UNCHANGED <<target, closures, behave, lib>>

NoOp == Record("init", Undefined, Undefined, Undefined, <<>>, Done("return", Undefined, <<>>))

Init ==
    /\ target = [s \in Slots |-> IF s = "m" THEN Fn("orig") ELSE Undefined]
    /\ closures = <<>>
    /\ behave \in {bh \in [UserFns -> AdviceBehaviours \cup Advice2Behaviours \cup OrigBehaviours] :
                     /\ bh["orig"] \in OrigBehaviours
                     /\ bh["a1"] \in AdviceBehaviours
                     /\ bh["a2"] \in Advice2Behaviours}
    /\ last = NoOp
    /\ lib = [op |-> "none"]

Next ==
    \/ \E fun \in Advices : before(Obj, Str("m"), fun)
    \/ \E fun \in Advices : after(Obj, Str("m"), fun)
    \/ \E fun \in Advices : handle(Obj, Str("m"), fun)
    \/ \E fun \in Advices : around(Obj, Str("m"), fun)
    \/ \E this \in Receivers, args \in ArgLists : Invoke(this, args)

Spec == Init /\ [][Next]_vars

\* the wrap calls alone, on every combination of inputs, valid or not
InitCheck ==
    /\ target = [s \in Slots |-> IF s = "m" THEN Fn("orig") ELSE Undefined]
    /\ closures = <<>>
    /\ behave = [n \in UserFns |-> [b |-> "return", v |-> Undefined]]
    /\ last = NoOp
    /\ lib = [op |-> "none"]

NextCheck ==
    \/ \E obj \in Targets, method \in Methods, fun \in Funs : before(obj, method, fun)
    \/ \E obj \in Targets, method \in Methods, fun \in Funs : after(obj, method, fun)
    \/ \E obj \in Targets, method \in Methods, fun \in Funs : handle(obj, method, fun)
    \/ \E obj \in Targets, method \in Methods, fun \in Funs : around(obj, method, fun)

SpecCheck == InitCheck /\ [][NextCheck]_vars

----------------------------------------------------------------------------
(* The library functions of part_000.  The file as written does not parse  *)
(* (line 327 ends a var statement with a comma); the functions are         *)
(* modelled as their bodies read, with that statement closed.              *)

\* $const(x): a function returning x
const(x) == [t |-> "function", const |-> x]

\* $A(iterable), for an array or an arguments object: a copy as an array
A(iterable) == Arr(iterable.a)

\* f.apply(this, args) for the functions of the library model: a closure of
\* $const returns its value; inc, dbl and sq are unary functions on numbers
LibApply(f, args) ==
    IF "const" \in DOMAIN f THEN f.const
    ELSE IF Len(args) = 0 \/ args[1].t # "number" THEN Num(0)
    ELSE CASE f.name = "inc" -> Num(args[1].n + 1)
           [] f.name = "dbl" -> Num(2 * args[1].n)
           [] f.name = "sq"  -> Num(args[1].n * args[1].n)

\* the loop of the function $compose returns, from index i down (1-based)
RECURSIVE composeLoop(_, _, _)
composeLoop(fns, i, args) ==
    IF i < 1 THEN args
    ELSE composeLoop(fns, i - 1, <<LibApply(fns[i], args)>>)

\* the function $compose returns, called with args
composed(fns, args) ==
    LET out == composeLoop(fns, Len(fns), args) IN
    IF Len(out) = 0 THEN Undefined ELSE out[1]

\* $compose(arguments...): a TypeError or the sequence fns of the closure
compose(arguments) ==
    IF Len(arguments) = 1
    THEN Throw(TypeError)          \* arguments[0] instanceof 'array'
    ELSE LET fns == A(Arguments(arguments)).a IN
         Return(Arr([i \in 1..Len(fns) |-> const(fns[i])]))     \* .map($const)

\* arrays of the intersection model carry the identity of the array object
Ref(ref, a) == [t |-> "array", ref |-> ref, a |-> a]

\* Array.prototype.indexOf(x) >= 0
Has(a, x) == \E i \in 1..Len(a) : a[i] = x

\* the elements of a that occur in b, in a's order
RECURSIVE Common(_, _)
Common(a, b) ==
    IF a = <<>> THEN <<>>
    ELSE IF Has(b, Head(a)) THEN <<Head(a)>> \o Common(Tail(a), b)
    ELSE Common(Tail(a), b)

\* this.intersection(arr); fresh is the identity of an array it creates
intersection(this, arr, fresh) ==
    IF arr.ref = this.ref THEN Ref(fresh, A(this).a)
    ELSE LET tmp == Common(this.a, arr.a) IN
         this

UnaryFns == {Fn("inc"), Fn("dbl"), Fn("sq")}
Inputs   == {Num(0), Num(1), Num(2)}
Elems    == {Num(1), Num(2), Num(3)}

SeqsUpTo(S, n) == UNION {[1..k -> S] : k \in 0..n}

\* $compose(fs...)(x), or $compose([fs...])(x) when asArray
Compose(fs, asArray, x) ==
    LET arguments == IF asArray THEN <<Arr(fs)>> ELSE fs
        c == compose(arguments)
        r == IF c.st = "throw" THEN c ELSE Return(composed(c.v.a, <<x>>))
    IN  /\ lib' = [op |-> "compose", fns |-> fs, asArray |-> asArray, x |-> x,
                   st |-> r.st, v |-> r.v]
        /\ UNCHANGED <<target, closures, behave, last>>

\* a.intersection(b), or a.intersection(a) when same
Intersection(a, b, same) ==
    LET this == Ref(1, a)
        arr  == IF same THEN this ELSE Ref(2, b)
    IN  /\ lib' = [op |-> "intersection", this |-> this, arr |-> arr,
                   v |-> intersection(this, arr, 3)]
        /\ UNCHANGED <<target, closures, behave, last>>

NextLib ==
    \/ \E fs \in SeqsUpTo(UnaryFns, MaxFns), asArray \in BOOLEAN, x \in Inputs :
          Compose(fs, asArray, x)
    \/ \E a \in SeqsUpTo(Elems, MaxLen), b \in SeqsUpTo(Elems, MaxLen), same \in BOOLEAN :
          Intersection(a, b, same)

SpecLib == InitCheck /\ [][NextLib]_vars

----------------------------------------------------------------------------
(* Reading the log of an invocation *)

WrapOps == {"before", "after", "handle", "around"}

\* the last operation was an invocation of a wrapper AOP installed
Invoked == last.op = "invoke" /\ "cl" \in DOMAIN last.fun

\* the closure of the wrapper the last invocation entered
top == closures[last.fun.cl]

\* the events of the calls made at depth d
AtDepth(log, d) == SelectSeq(log, LAMBDA e : e.d = d)

\* the calls the invoked wrapper made itself, with their exits
D1 == AtDepth(last.log, 1)

\* the calls the functions called by the wrapper made, with their exits
D2 == AtDepth(last.log, 2)

IsExit(e, f) == e.ev \in {"return", "throw"} /\ e.f = f

----------------------------------------------------------------------------
(* C1 *)

\* C1: a successful wrap call returns exactly the value stored at
\* target[methodName] immediately before the call and leaves a new wrapper,
\* distinct from that value and closing over it, in the slot; the value the
\* n-th wrap returns is the wrapper the (n-1)-th installed.
C1_ReturnsPrevious ==
    [][(last'.op \in WrapOps /\ last'.st = "return") =>
          LET m == last'.method.s
              n == Len(closures)
          IN  /\ last'.v = target[m]
              /\ target'[m] # target[m]
              /\ target'[m] = Closure(n + 1)
              /\ Len(closures') = n + 1
              /\ closures'[n + 1] = [kind |-> last'.op, old |-> target[m], fun |-> last'.fun]
              /\ \A i \in 1..n : closures'[i] = closures[i]
              /\ \A s \in Slots \ {m} : target'[s] = target[s]
              /\ (n > 0 => last'.v = Closure(n))
              /\ (n = 0 => last'.v = Fn("orig"))]_vars

\* the second wrap, a handle, returned the wrapper the first wrap installed
C1_Witness ==
    /\ last.op = "handle" /\ last.st = "return"
    /\ Len(closures) = 2
    /\ last.v = Closure(1)
    /\ target["m"] = Closure(2)

----------------------------------------------------------------------------
(* C3 *)

\* the argument list the claim gives the original for the advice's value r
C3_ArgsFor(r, args) ==
    IF r = Undefined THEN args
    ELSE IF r.t = "array" THEN r.a
    ELSE <<r>>

\* C3: an invocation of a before wrapper first calls the advice once, with
\* the caller's arguments and receiver; when the advice returns r, it then
\* calls the original exactly once with the same receiver and with: the
\* caller's arguments if r is undefined, the elements of r if r is an array,
\* the single argument r otherwise (null, false, 0 and "" included); the
\* wrapper's result is the original's.
C3_Before ==
    (Invoked /\ top.kind = "before") =>
        /\ Len(D1) >= 2
        /\ D1[1] = CallEv(top.fun, last.obj, last.args, 1)
        /\ IsExit(D1[2], top.fun)
        /\ D1[2].ev = "return" =>
              /\ Len(D1) = 4
              /\ D1[3] = CallEv(top.old, last.obj, C3_ArgsFor(D1[2].v, last.args), 1)
              /\ IsExit(D1[4], top.old)
              /\ last.st = D1[4].ev
              /\ last.v = D1[4].v

\* the advice returned 0 and the original was called with the single argument
\* 0 and returned the wrapper's result
C3_Witness ==
    /\ Invoked /\ top.kind = "before"
    /\ Len(D1) = 4
    /\ D1[2].ev = "return" /\ D1[2].v = Num(0)
    /\ D1[3].args = <<Num(0)>>
    /\ last.args = <<Str("a"), Str("b")>>
    /\ last.st = "return" /\ last.v = Str("r")

----------------------------------------------------------------------------
(* C4 *)

\* C4: an invocation of an after wrapper calls the original first, with the
\* caller's arguments and receiver; when the original returns, it then calls
\* the advice exactly once with the single argument the original returned,
\* and the wrapper's result is the advice's.
C4_After ==
    (Invoked /\ top.kind = "after") =>
        /\ Len(D1) >= 2
        /\ D1[1] = CallEv(top.old, last.obj, last.args, 1)
        /\ IsExit(D1[2], top.old)
        /\ D1[2].ev = "return" =>
              /\ Len(D1) = 4
              /\ D1[3].ev = "call" /\ D1[3].f = top.fun
              /\ D1[3].args = <<D1[2].v>>
              /\ IsExit(D1[4], top.fun)
              /\ last.st = D1[4].ev
              /\ last.v = D1[4].v

\* the original returned "r", the advice was called with it and returned
\* null, which the wrapper returned
C4_Witness ==
    /\ Invoked /\ top.kind = "after"
    /\ Len(D1) = 4
    /\ D1[2].v = Str("r")
    /\ D1[3].args = <<Str("r")>>
    /\ last.st = "return" /\ last.v = Null

----------------------------------------------------------------------------
(* C5 *)

\* C5: an invocation of a handle wrapper calls the original once with the
\* caller's arguments; the advice is called exactly when the original
\* throws, with the two arguments (the error thrown, the caller's argument
\* list), and the original's throw does not leave the wrapper; when the
\* original returns the advice is not called; the wrapper returns undefined
\* on both paths.
C5_Handle ==
    (Invoked /\ top.kind = "handle") =>
        /\ Len(D1) >= 2
        /\ D1[1] = CallEv(top.old, last.obj, last.args, 1)
        /\ IsExit(D1[2], top.old)
        /\ D1[2].ev = "return" =>
              /\ Len(D1) = 2
              /\ last.st = "return" /\ last.v = Undefined
        /\ D1[2].ev = "throw" =>
              /\ Len(D1) = 4
              /\ D1[3].ev = "call" /\ D1[3].f = top.fun
              /\ Len(D1[3].args) = 2
              /\ D1[3].args[1] = D1[2].v
              /\ D1[3].args[2].a = last.args
              /\ IsExit(D1[4], top.fun)
              /\ D1[4].ev = "return" => (last.st = "return" /\ last.v = Undefined)
              /\ last.st = "throw" => (D1[4].ev = "throw" /\ last.v = D1[4].v)

\* the original threw E0, the advice got (E0, arguments), returned "v", and
\* the wrapper returned undefined
C5_Witness ==
    /\ Invoked /\ top.kind = "handle"
    /\ Len(D1) = 4
    /\ D1[2].ev = "throw" /\ D1[2].v = Err("E0")
    /\ D1[3].args = <<Err("E0"), Arguments(last.args)>>
    /\ D1[4].ev = "return" /\ D1[4].v = Str("v")
    /\ last.st = "return" /\ last.v = Undefined

----------------------------------------------------------------------------
(* C6 *)

\* how often the body behave gives the function f calls its first argument,
\* given how the first of these calls ended
C6_CallsMade(f, firstExit) ==
    LET bh == behave[f.name] IN
    CASE bh.b = "proceed"  -> 1
      [] bh.b = "proceed2" -> IF firstExit = "throw" THEN 1 ELSE 2
      [] OTHER             -> 0

\* C6: an invocation of an around wrapper calls the advice exactly once, with
\* the two arguments (the original captured at wrap time, the caller's
\* argument list) and the caller's receiver; the wrapper's result is the
\* advice's; the wrapper itself never calls the original, which runs zero,
\* one or two times, as often as the advice calls it.
C6_Around ==
    (Invoked /\ top.kind = "around") =>
        /\ Len(D1) = 2
        /\ D1[1] = CallEv(top.fun, last.obj, <<top.old, Arguments(last.args)>>, 1)
        /\ IsExit(D1[2], top.fun)
        /\ last.st = D1[2].ev
        /\ last.v = D1[2].v
        /\ top.old = (IF last.fun.cl = 1 THEN Fn("orig") ELSE Closure(last.fun.cl - 1))
        /\ LET calls == SelectSeq(D2, LAMBDA e : e.ev = "call") IN
           /\ \A i \in 1..Len(calls) :
                 calls[i].f = top.old /\ calls[i].args = last.args
           /\ Len(calls) = C6_CallsMade(top.fun, IF Len(D2) >= 2 THEN D2[2].ev ELSE "return")

\* the advice called the original twice and the wrapper returned what the
\* advice returned
C6_Witness ==
    /\ Invoked /\ top.kind = "around"
    /\ Len(D1) = 2
    /\ Len(SelectSeq(D2, LAMBDA e : e.ev = "call" /\ e.f = top.old)) = 2
    /\ last.st = "return" /\ last.v = Str("r")

----------------------------------------------------------------------------
(* C7 *)

\* the functions called, in call order, by the calls of depth at most d
CalledTo(d) ==
    LET calls == SelectSeq(last.log, LAMBDA e : e.ev = "call" /\ e.d <= d)
    IN  [i \in 1..Len(calls) |-> calls[i].f]

\* the caller's functions called during the last invocation, in call order
UserCalled ==
    LET calls == SelectSeq(last.log, LAMBDA e : e.ev = "call" /\ "name" \in DOMAIN e.f)
    IN  [i \in 1..Len(calls) |-> calls[i].f]

\* the last invocation entered the wrapper of a before wrap that followed
\* another before wrap, and both advices return
C7_TwoBefores ==
    /\ Invoked
    /\ last.fun.cl >= 2
    /\ top.kind = "before"
    /\ closures[last.fun.cl - 1].kind = "before"
    /\ behave[top.fun.name].b = "return"
    /\ behave[closures[last.fun.cl - 1].fun.name].b = "return"

\* C7 as stated: after before(target, m, a1) and then before(target, m, a2)
\* on the method the target started with, one invocation runs a1, then a2,
\* then the original method, each exactly once.
C7_WrapOrder ==
    (C7_TwoBefores /\ last.fun.cl = 2 /\ top.fun # closures[1].fun) =>
        /\ top.old = Closure(1)
        /\ UserCalled = <<closures[1].fun, top.fun, Fn("orig")>>

\* C7 as amended: the second wrapper's captured original is the first
\* wrapper, and one invocation runs the advice wrapped second, then the first
\* wrapper, which runs the advice wrapped first and then what it captured,
\* each exactly once.
C7_Composes ==
    C7_TwoBefores =>
        LET inner == closures[last.fun.cl - 1] IN
        /\ top.old = Closure(last.fun.cl - 1)
        /\ CalledTo(2) = <<last.fun, top.fun, top.old, inner.fun, inner.old>>
        /\ (last.fun.cl = 2 =>
               UserCalled = <<top.fun, inner.fun, Fn("orig")>>)

\* before with a1, then before with a2, then one invocation: a2, a1 and the
\* original method ran in that order
C7_Witness ==
    /\ C7_TwoBefores
    /\ last.fun.cl = 2
    /\ closures[1].fun = Fn("a1") /\ top.fun = Fn("a2")
    /\ UserCalled = <<Fn("a2"), Fn("a1"), Fn("orig")>>
    /\ last.st = "return"

----------------------------------------------------------------------------
(* C10 *)

\* the wrapper's completion is the throw of the exit event e
C10_Thrown(e) == e.ev = "throw" => (last.st = "throw" /\ last.v = e.v)

\* C10: a throw during the invocation of a wrapper reaches the caller and
\* ends the wrapper, except the original's throw in a handle wrapper: in a
\* before wrapper the advice's throw reaches the caller and the original is
\* not called; in an after wrapper the original's throw reaches the caller
\* and the advice is not called; in an around wrapper the advice's throw
\* reaches the caller; in a handle wrapper the throw of the advice, called
\* for the original's throw, reaches the caller.
C10_Propagates ==
    Invoked =>
        /\ Len(D1) \in {2, 4}
        /\ top.kind \in {"before", "after"} =>
              /\ C10_Thrown(D1[Len(D1)])
              /\ D1[2].ev = "throw" => Len(D1) = 2
              /\ last.st = "throw" => D1[Len(D1)].ev = "throw"
        /\ top.kind = "around" => C10_Thrown(D1[2])
        /\ top.kind = "handle" =>
              /\ Len(D1) = 4 => C10_Thrown(D1[4])
              /\ Len(D1) = 2 => D1[2].ev = "return"
              /\ last.st = "throw" => (Len(D1) = 4 /\ IsExit(D1[4], top.fun))

\* in a handle wrapper the original threw E0, the advice, called for it,
\* threw E, and E reached the caller
C10_Witness ==
    /\ Invoked /\ top.kind = "handle"
    /\ Len(D1) = 4
    /\ D1[2].ev = "throw" /\ D1[2].v = Err("E0")
    /\ D1[4].ev = "throw" /\ D1[4].v = E
    /\ last.st = "throw" /\ last.v = E

----------------------------------------------------------------------------
(* C2 *)

\* a target the claim calls "not an object"
C2_NotObject(o) == o.t \in {"undefined", "null", "boolean", "number", "string"}

\* methodName is empty or absent, or names no defined member of the target
C2_NoMethod(method) ==
    \/ method.t # "string"
    \/ method.s = ""
    \/ method.s \notin Slots
    \/ target[method.s] = Undefined

\* C2: a wrap call validates in the order object, advice, method: a target
\* that is not an object (a primitive, undefined or null) raises
\* InvalidObject whatever the other inputs; otherwise an advice that is no
\* function raises InvalidAspect whatever methodName; otherwise a methodName
\* that is empty, absent or names no defined member raises InvalidMethod;
\* and a failing call leaves the target unchanged.
C2_Validation ==
    [][last'.op \in WrapOps =>
          LET o == last'.obj
              f == last'.fun
              Raised(e) == last'.st = "throw" /\ last'.v = e
          IN  /\ C2_NotObject(o) => Raised(InvalidObject)
              /\ (o = Obj /\ f.t # "function") => Raised(InvalidAspect)
              /\ (o = Obj /\ f.t = "function" /\ C2_NoMethod(last'.method)) =>
                    Raised(InvalidMethod)
              /\ last'.st = "throw" => (target' = target /\ closures' = closures)]_vars

----------------------------------------------------------------------------
(* C8 *)

\* f1(f2(...fn(x)...))
RECURSIVE C8_Nested(_, _)
C8_Nested(fs, x) ==
    IF fs = <<>> THEN x
    ELSE LibApply(Head(fs), <<C8_Nested(Tail(fs), x)>>)

\* C8: $compose(f1, ..., fn)(x) equals f1(f2(...fn(x)...)), in particular
\* $compose(f, g)(x) equals f(g(x)), and a single array of functions as the
\* only argument is treated as its elements.
C8_Compose ==
    lib.op = "compose" =>
        /\ lib.st = "return"
        /\ lib.v = C8_Nested(lib.fns, lib.x)

----------------------------------------------------------------------------
(* C9 *)

\* C9: intersection returns a new array, neither the receiver nor the
\* argument, holding exactly the receiver's elements that occur in the
\* argument, in the receiver's order (empty when they share no element).
C9_Intersection ==
    lib.op = "intersection" =>
        /\ lib.v.ref # lib.this.ref
        /\ lib.v.ref # lib.arr.ref
        /\ lib.v.a = SelectSeq(lib.this.a, LAMBDA x : Has(lib.arr.a, x))

====
